---- MODULE Spec2Model ----
(***************************************************************************)
(* A model of the azure-logs-mcp tool server (src/server.py): the tool     *)
(* dispatcher handle_call_tool with its two module globals (logs_client,   *)
(* saved_queries), the result formatter format_results and the syntax      *)
(* checker validate_kql_syntax.                                            *)
(*                                                                         *)
(* Text is a sequence of string fragments whose concatenation is the       *)
(* Python string.  The fixed parts of an f-string are one fragment each;   *)
(* cell values, column names and queries given to the formatter and the    *)
(* syntax checker are sequences of one-character fragments, so that Len    *)
(* is the character count there.                                           *)
(* A Python dict is a sequence of <<key, value>> pairs with distinct keys, *)
(* in insertion order.                                                     *)
(***************************************************************************)
EXTENDS Integers, Sequences, FiniteSets, TLC

(* ------------------------------ bounds --------------------------------- *)
MaxCalls == 3        \* tool invocations in one process run
MaxRows == 3         \* rows handed to format_results
MaxLimit == 2        \* largest explicit limit handed to format_results
MaxQueryLen == 3     \* characters of a query handed to validate_kql_syntax

(* --------------------------- program constants ------------------------- *)
DefaultLimit == 1000

None == 0            \* logs_client = None; a constructed client is 1, 2, ...

Min(a, b) == IF a < b THEN a ELSE b
Max(a, b) == IF a > b THEN a ELSE b

(* ------------------------------ dicts ---------------------------------- *)
DictHas(d, k) == \E i \in 1..Len(d) : d[i][1] = k

DictGet(d, k) == d[CHOOSE i \in 1..Len(d) : d[i][1] = k][2]

\* d.get(k, default)
DictGetOr(d, k, default) == IF DictHas(d, k) THEN DictGet(d, k) ELSE default

\* a store that appends on every assignment instead of replacing the entry
DictSetAppend(d, k, v) == Append(d, <<k, v>>)

\* an assignment that rebinds the dict to one holding the new entry alone
DictSetReplaceAll(d, k, v) == <<<<k, v>>>>

\* d[k] = v : replaces the value in place when k is present, appends otherwise
DictSet(d, k, v) ==
    IF DictHas(d, k)
    THEN [i \in 1..Len(d) |-> IF d[i][1] = k THEN <<k, v>> ELSE d[i]]
    ELSE Append(d, <<k, v>>)

\* list(d.keys())
DictKeys(d) == [i \in 1..Len(d) |-> d[i][1]]

RECURSIVE DictZipFrom(_, _, _)
DictZipFrom(cols, row, i) ==
    IF i = 0 THEN <<>>
    ELSE DictSet(DictZipFrom(cols, row, i - 1), cols[i], row[i])

\* dict(zip(columns, row))
DictZip(cols, row) == DictZipFrom(cols, row, Min(Len(cols), Len(row)))

(* ------------------------------ strings -------------------------------- *)
RECURSIVE Repeat(_, _)
Repeat(c, n) == IF n <= 0 THEN <<>> ELSE <<c>> \o Repeat(c, n - 1)

\* s.ljust(w): pads on the right with spaces, never truncates
LJust(s, w) == s \o Repeat(" ", w - Len(s))

RECURSIVE Join(_, _)
\* sep.join(parts)
Join(sep, parts) ==
    IF Len(parts) = 0 THEN <<>>
    ELSE IF Len(parts) = 1 THEN parts[1]
    ELSE parts[1] \o sep \o Join(sep, Tail(parts))

RECURSIVE Concat(_)
Concat(parts) == IF Len(parts) = 0 THEN <<>> ELSE parts[1] \o Concat(Tail(parts))

RECURSIVE MaxOf(_)
\* max(...) of a non-empty sequence of integers
MaxOf(ns) == IF Len(ns) = 1 THEN ns[1] ELSE Max(ns[1], MaxOf(Tail(ns)))

\* results[:limit], Python slice semantics (a negative bound counts from the end)
SlicePrefix(s, n) ==
    IF n >= 0 THEN SubSeq(s, 1, Min(n, Len(s)))
    ELSE SubSeq(s, 1, Max(0, Len(s) + n))

Whitespace == {" ", "\t", "\n", "\r"}

RECURSIVE LStrip(_)
LStrip(s) == IF Len(s) > 0 /\ s[1] \in Whitespace THEN LStrip(Tail(s)) ELSE s

RECURSIVE RStrip(_)
RStrip(s) ==
    IF Len(s) > 0 /\ s[Len(s)] \in Whitespace THEN RStrip(SubSeq(s, 1, Len(s) - 1)) ELSE s

\* query.strip()
Strip(s) == RStrip(LStrip(s))

AsciiLetters ==
    {"A","B","C","D","E","F","G","H","I","J","K","L","M","N","O","P","Q","R","S","T","U","V","W","X","Y","Z",
     "a","b","c","d","e","f","g","h","i","j","k","l","m","n","o","p","q","r","s","t","u","v","w","x","y","z"}

\* re.search(r'^[A-Za-z_][A-Za-z0-9_]*', s) is not None: the star part matches
\* the empty string, so the match is decided by the first character
StartsWithIdentifier(s) == Len(s) > 0 /\ s[1] \in (AsciiLetters \cup {"_"})

\* the pattern applied to the raw, untrimmed query
HasTableUnstripped(query) == StartsWithIdentifier(query)

\* has_table: the pattern applied to the trimmed query
HasTable(query) == StartsWithIdentifier(Strip(query))

validate_kql_syntax(query) ==
    IF Strip(query) = <<>> THEN <<FALSE, "Empty query">>
    ELSE IF ~HasTable(query) THEN <<FALSE, "Query must start with a table name">>
    ELSE <<TRUE, "Valid syntax">>

(* ------------------------------ formatter ------------------------------ *)
NoResults == <<"No results found">>

\* the outcome of a call: raised = "" when it returned, text is the returned string
Returned(text) == [raised |-> "", text |-> text]
Raised(exc) == [raised |-> exc, text |-> <<>>]

\* json.dumps of a str: quoted, control characters escaped
JsonStr(s) ==
    <<"\"">> \o Concat([i \in 1..Len(s) |->
                          IF s[i] = "\n" THEN <<"\\", "n">> ELSE <<s[i]>>]) \o <<"\"">>

\* json.dumps(..., indent=2) of a list whose items are already rendered for
\* nesting depth ind + 1
JsonArr(items, ind) ==
    IF Len(items) = 0 THEN <<"[]">>
    ELSE <<"[", "\n">>
         \o Join(<<",", "\n">>, [i \in 1..Len(items) |-> Repeat(" ", 2 * (ind + 1)) \o items[i]])
         \o <<"\n">> \o Repeat(" ", 2 * ind) \o <<"]">>

\* json.dumps(..., indent=2) of a dict given as <<key, rendered value>> pairs
JsonObj(pairs, ind) ==
    IF Len(pairs) = 0 THEN <<"{}">>
    ELSE <<"{", "\n">>
         \o Join(<<",", "\n">>,
                 [i \in 1..Len(pairs) |->
                    Repeat(" ", 2 * (ind + 1)) \o JsonStr(pairs[i][1]) \o <<":", " ">> \o pairs[i][2]])
         \o <<"\n">> \o Repeat(" ", 2 * ind) \o <<"}">>

\* a dict of strings at nesting depth ind
JsonDict(row, ind) == JsonObj([i \in 1..Len(row) |-> <<row[i][1], JsonStr(row[i][2])>>], ind)

\* a list of dicts of strings at nesting depth ind
JsonRows(rows, ind) == JsonArr([i \in 1..Len(rows) |-> JsonDict(rows[i], ind + 1)], ind)

\* json.dumps(rows, indent=2, default=str) of a list of dicts of strings
JsonDumps(rows) == JsonRows(rows, 0)

CsvSpecial == {",", "\"", "\r", "\n"}

\* one csv record: fields quoted when they hold a special character, a lone
\* empty field written as "", terminated by \r\n
CsvRecord(fields) ==
    LET quote(f) == <<"\"">>
                    \o Concat([i \in 1..Len(f) |->
                                 IF f[i] = "\"" THEN <<"\"", "\"">> ELSE <<f[i]>>])
                    \o <<"\"">>
        cell(f) == IF \E i \in 1..Len(f) : f[i] \in CsvSpecial THEN quote(f) ELSE f
    IN  (IF Len(fields) = 1 /\ fields[1] = <<>> THEN <<"\"", "\"">>
         ELSE Join(<<",">>, [i \in 1..Len(fields) |-> cell(fields[i])]))
        \o <<"\r", "\n">>

\* csv.DictWriter(fieldnames=first row's keys): writeheader, writerows; a row
\* with a key outside fieldnames raises ValueError, a missing key is written ""
FormatCsv(limited) ==
    LET fieldnames == DictKeys(limited[1])
        extras(row) == \E i \in 1..Len(row) :
                          \A j \in 1..Len(fieldnames) : fieldnames[j] # row[i][1]
        rec(row) == CsvRecord([j \in 1..Len(fieldnames) |->
                                  DictGetOr(row, fieldnames[j], <<>>)])
    IN  IF \E r \in 1..Len(limited) : extras(limited[r]) THEN Raised("ValueError")
        ELSE Returned(CsvRecord(fieldnames)
                      \o Concat([r \in 1..Len(limited) |-> rec(limited[r])]))

\* headers = list(limited_results[0].keys())
TableHeaders(limited) == DictKeys(limited[1])

\* rows = [[str(row.get(h, "")) for h in headers] for row in limited_results]
TableCells(limited) ==
    [r \in 1..Len(limited) |->
        [i \in 1..Len(TableHeaders(limited)) |->
            DictGetOr(limited[r], TableHeaders(limited)[i], <<>>)]]

\* col_widths = [max(len(h), max(len(r[i]) for r in rows)) ...]
ColWidths(headers, rows) ==
    [i \in 1..Len(headers) |->
        Max(Len(headers[i]), MaxOf([r \in 1..Len(rows) |-> Len(rows[r][i])]))]

\* the list [header_row, separator] + data_rows that is joined with "\n"
TableLines(limited) ==
    LET headers == TableHeaders(limited)
        rows == TableCells(limited)
        col_widths == ColWidths(headers, rows)
        n == Len(headers)
        header_row == Join(<<" ", "|", " ">>, [i \in 1..n |-> LJust(headers[i], col_widths[i])])
        separator == Join(<<"-", "+", "-">>, [i \in 1..n |-> Repeat("-", col_widths[i])])
        data_rows == [r \in 1..Len(rows) |->
                        Join(<<" ", "|", " ">>, [i \in 1..n |-> LJust(rows[r][i], col_widths[i])])]
    IN  <<header_row, separator>> \o data_rows

FormatTable(limited) == Returned(Join(<<"\n">>, TableLines(limited)))

\* a truncation that keeps every row
LimitResultsNone(results, limit) == results

\* limited_results = results[:limit] if len(results) > limit else results
LimitResults(results, limit) ==
    IF Len(results) > limit THEN SlicePrefix(results, limit) ELSE results

\* the empty-input test dropped
IsEmptyResultsNever(results) == FALSE

\* not results
IsEmptyResults(results) == Len(results) = 0

format_results(results, format_type, limit) ==
    IF IsEmptyResults(results) THEN Returned(NoResults)
    ELSE LET limited_results == LimitResults(results, limit)
         IN  IF format_type = "csv"
             THEN IF Len(limited_results) = 0 THEN Returned(<<>>)
                  ELSE FormatCsv(limited_results)
             ELSE IF format_type = "table"
             THEN IF Len(limited_results) = 0 THEN Returned(<<>>)
                  ELSE FormatTable(limited_results)
             ELSE Returned(JsonDumps(limited_results))

(* ------------------------------ dispatcher ----------------------------- *)
VARIABLES
    logs_client,     \* the module global: None or the constructed client
    saved_queries,   \* the module global: dict name -> <<query, description>>
    files,           \* local storage: dict filename -> content
    constructions,   \* how many clients have been constructed so far
    nCalls,          \* how many tool invocations have completed
    last,            \* the most recent invocation: its inputs and its outcome
    everSaved,       \* names whose save_query answered "saved successfully",
                     \* each with the <<query, description>> of the latest one
    initFailed,      \* some client construction has failed
    handlesUsed,     \* the clients on which query_workspace has been called
    fmt,             \* one application of format_results
    kql              \* one application of validate_kql_syntax

vars == <<logs_client, saved_queries, files, constructions, nCalls, last,
          everSaved, initFailed, handlesUsed, fmt, kql>>

dispatchVars == <<logs_client, saved_queries, files, constructions, nCalls, last,
                  everSaved, initFailed, handlesUsed>>

\* arguments.get(key, default)
ArgGet(arguments, key, default) ==
    IF key \in DOMAIN arguments THEN arguments[key] ELSE default

\* the keys each branch reads with arguments[...] before it does anything else
RequiredKeys(name) ==
    CASE name = "query_logs" -> {"workspace_id", "query"}
      [] name = "save_query" -> {"name", "query"}
      [] name = "run_saved_query" -> {"workspace_id", "name"}
      [] name = "validate_query" -> {"query"}
      [] name = "list_tables" -> {"workspace_id"}
      [] name = "get_table_schema" -> {"workspace_id", "table_name"}
      [] name = "export_results" -> {"workspace_id", "query", "filename"}
      [] OTHER -> {}

RecognizedTools ==
    {"query_logs", "save_query", "list_saved_queries", "run_saved_query",
     "validate_query", "list_tables", "get_table_schema", "export_results"}

\* a guard that constructs a client on every invocation
NeedsClientAlways(client) == TRUE

\* a guard that gives up after the first failed construction
NeedsClientUnlessFailed(client) == client = None /\ ~initFailed

\* if not logs_client
NeedsClient(client) == client = None

\* what an invocation leaves behind
Outcome(client, store, fs, raised, text, attempted, calls) ==
    [client |-> client, store |-> store, files |-> fs, raised |-> raised,
     text |-> text, attempted |-> attempted, calls |-> calls]

\* logs_client.query_workspace(...): the environment decides the response; a
\* call on None raises AttributeError before anything reaches the backend
QueryWorkspace(client, workspace_id, query, timespan, response) ==
    IF client = None
    THEN [raised |-> "AttributeError", tables |-> <<>>, calls |-> <<>>]
    ELSE [raised |-> response.raised, tables |-> response.tables,
          calls |-> <<[client |-> client, workspace_id |-> workspace_id,
                       query |-> query, timespan |-> timespan,
                       response |-> response]>>]

RECURSIVE Flatten(_)
\* results = []; for table in response.tables: results.extend(dict(zip(...)))
Flatten(tables) ==
    IF Len(tables) = 0 THEN <<>>
    ELSE [r \in 1..Len(tables[1].rows) |-> DictZip(tables[1].columns, tables[1].rows[r])]
         \o Flatten(Tail(tables))

QueryLogsBranch(arguments, env, client, store, fs, attempted) ==
    LET workspace_id == arguments["workspace_id"]
        query == arguments["query"]
        timespan == ArgGet(arguments, "timespan", "PT1H")
        format_type == ArgGet(arguments, "format", "json")
        limit == ArgGet(arguments, "limit", DefaultLimit)
        response == QueryWorkspace(client, workspace_id, <<query>>, timespan, env.response)
        formatted == format_results(Flatten(response.tables), format_type, limit)
        text == IF response.raised # "" THEN <<"Query failed: ", response.raised>>
                ELSE IF Len(response.tables) = 0 THEN NoResults
                ELSE IF formatted.raised # "" THEN <<"Query failed: ", formatted.raised>>
                ELSE formatted.text
    IN  Outcome(client, store, fs, "", text, attempted, response.calls)

SaveQueryBranch(arguments, client, store, fs, attempted) ==
    LET name_key == arguments["name"]
        query == arguments["query"]
        description == ArgGet(arguments, "description", "")
    IN  Outcome(client, DictSet(store, name_key, <<query, description>>), fs, "",
                <<"Query '", name_key, "' saved successfully">>, attempted, <<>>)

ListSavedQueriesBranch(client, store, fs, attempted) ==
    LET query_list == [i \in 1..Len(store) |->
                          JsonObj(<< <<<<"name">>, JsonStr(<<store[i][1]>>)>>,
                                     <<<<"description">>, JsonStr(<<store[i][2][2]>>)>>,
                                     <<<<"query">>, JsonStr(<<store[i][2][1]>>)>> >>, 1)]
        text == IF Len(store) = 0 THEN <<"No saved queries">> ELSE JsonArr(query_list, 0)
    IN  Outcome(client, store, fs, "", text, attempted, <<>>)

\* a branch that asks the backend before it looks the name up
RunSavedQueryCallsFirst(arguments, env, client, store, fs, attempted) ==
    LET query == DictGetOr(store, arguments["name"], <<"", "">>)[1]
        response == QueryWorkspace(client, arguments["workspace_id"], <<query>>,
                                   ArgGet(arguments, "timespan", "PT1H"), env.response)
        text == IF ~DictHas(store, arguments["name"])
                THEN <<"Query '", arguments["name"], "' not found">>
                ELSE IF response.raised # "" THEN <<"Query failed: ", response.raised>>
                ELSE IF Len(response.tables) = 0 THEN NoResults
                ELSE JsonDumps(Flatten(response.tables))
    IN  Outcome(client, store, fs, "", text, attempted, response.calls)

RunSavedQueryBranch(arguments, env, client, store, fs, attempted) ==
    LET workspace_id == arguments["workspace_id"]
        query_name == arguments["name"]
        timespan == ArgGet(arguments, "timespan", "PT1H")
        query == DictGet(store, query_name)[1]
        response == QueryWorkspace(client, workspace_id, <<query>>, timespan, env.response)
        text == IF response.raised # "" THEN <<"Query failed: ", response.raised>>
                ELSE IF Len(response.tables) = 0 THEN NoResults
                ELSE JsonDumps(Flatten(response.tables))
    IN  IF ~DictHas(store, query_name)
        THEN Outcome(client, store, fs, "", <<"Query '", query_name, "' not found">>,
                     attempted, <<>>)
        ELSE Outcome(client, store, fs, "", text, attempted, response.calls)

ValidateQueryBranch(arguments, client, store, fs, attempted) ==
    LET query == arguments["query"]
        res == validate_kql_syntax(query)
        result == << <<<<"valid">>, <<IF res[1] THEN "true" ELSE "false">>>>,
                     <<<<"message">>, JsonStr(<<res[2]>>)>> >>
    IN  Outcome(client, store, fs, "", JsonObj(result, 0), attempted, <<>>)

ListTablesBranch(arguments, env, client, store, fs, attempted) ==
    LET workspace_id == arguments["workspace_id"]
        query == "search * | distinct $table | sort by $table asc"
        response == QueryWorkspace(client, workspace_id, <<query>>, "P30D", env.response)
        rows == IF Len(response.tables) > 0 THEN response.tables[1].rows ELSE <<>>
        tables == [r \in 1..Len(rows) |-> JsonStr(rows[r][1])]
        text == IF response.raised # "" THEN <<"Failed to list tables: ", response.raised>>
                ELSE IF \E r \in 1..Len(rows) : Len(rows[r]) = 0
                THEN <<"Failed to list tables: ", "IndexError">>
                ELSE JsonObj(<< <<<<"tables">>, JsonArr(tables, 1)>> >>, 0)
    IN  Outcome(client, store, fs, "", text, attempted, response.calls)

GetTableSchemaBranch(arguments, env, client, store, fs, attempted) ==
    LET workspace_id == arguments["workspace_id"]
        table_name == arguments["table_name"]
        query == <<table_name, " | getschema | project ColumnName, DataType, ColumnType">>
        response == QueryWorkspace(client, workspace_id, query, "P1D", env.response)
        first == response.tables[1]
        schema == [r \in 1..Len(first.rows) |-> DictZip(first.columns, first.rows[r])]
        text == IF response.raised # "" THEN <<"Failed to get schema: ", response.raised>>
                ELSE IF Len(response.tables) > 0 /\ Len(first.rows) > 0
                THEN JsonObj(<< <<<<"table">>, JsonStr(<<table_name>>)>>,
                                <<<<"schema">>, JsonRows(schema, 1)>> >>, 0)
                ELSE <<"No schema found for table ", table_name>>
    IN  Outcome(client, store, fs, "", text, attempted, response.calls)

\* the part of a csv file written before DictWriter raises on the first row
\* that has a key outside fieldnames
RECURSIVE CsvWrittenBeforeError(_, _, _)
CsvWrittenBeforeError(results, r, acc) ==
    IF r > Len(results) \/ FormatCsv(<<results[1], results[r]>>).raised # "" THEN acc
    ELSE CsvWrittenBeforeError(results, r + 1,
            acc \o CsvRecord([j \in 1..Len(results[1]) |->
                                 DictGetOr(results[r], results[1][j][1], <<>>)]))

ExportResultsBranch(arguments, env, client, store, fs, attempted) ==
    LET workspace_id == arguments["workspace_id"]
        query == arguments["query"]
        filename == arguments["filename"]
        format_type == ArgGet(arguments, "format", "csv")
        response == QueryWorkspace(client, workspace_id, <<query>>, "PT24H", env.response)
        results == Flatten(response.tables)
        csvOut == IF Len(results) = 0 THEN Returned(<<>>) ELSE FormatCsv(results)
        content == IF format_type = "csv"
                   THEN IF csvOut.raised = "" THEN csvOut.text
                        ELSE CsvWrittenBeforeError(results, 1, CsvRecord(DictKeys(results[1])))
                   ELSE JsonDumps(results)
        writeRaised == IF env.open # "" THEN env.open
                       ELSE IF format_type = "csv" THEN csvOut.raised ELSE ""
    IN  IF response.raised # ""
        THEN Outcome(client, store, fs, "", <<"Export failed: ", response.raised>>,
                     attempted, response.calls)
        ELSE IF Len(response.tables) = 0
        THEN Outcome(client, store, fs, "", <<"No results to export">>, attempted,
                     response.calls)
        ELSE IF env.open # ""
        THEN Outcome(client, store, fs, "", <<"Export failed: ", env.open>>, attempted,
                     response.calls)
        ELSE Outcome(client, store, DictSet(fs, filename, content), "",
                     IF writeRaised # "" THEN <<"Export failed: ", writeRaised>>
                     ELSE <<"Results exported to ", filename, " (",
                            ToString(Len(results)), " rows)">>,
                     attempted, response.calls)

\* an unknown name reported by raising instead of by a text response
UnknownToolRaises(name, client, store, fs, attempted) ==
    Outcome(client, store, fs, "ValueError", <<>>, attempted, <<>>)

\* the fallthrough below the last elif
UnknownToolBranch(name, client, store, fs, attempted) ==
    Outcome(client, store, fs, "", <<"Unknown tool: ", name>>, attempted, <<>>)

\* the if / elif chain of handle_call_tool below the client construction
Dispatch(name, arguments, env, client, store, fs, attempted) ==
    IF ~(RequiredKeys(name) \subseteq DOMAIN arguments)
    THEN Outcome(client, store, fs, "KeyError", <<>>, attempted, <<>>)
    ELSE CASE name = "query_logs" -> QueryLogsBranch(arguments, env, client, store, fs, attempted)
           [] name = "save_query" -> SaveQueryBranch(arguments, client, store, fs, attempted)
           [] name = "list_saved_queries" -> ListSavedQueriesBranch(client, store, fs, attempted)
           [] name = "run_saved_query" ->
                  RunSavedQueryBranch(arguments, env, client, store, fs, attempted)
           [] name = "validate_query" ->
                  ValidateQueryBranch(arguments, client, store, fs, attempted)
           [] name = "list_tables" -> ListTablesBranch(arguments, env, client, store, fs, attempted)
           [] name = "get_table_schema" ->
                  GetTableSchemaBranch(arguments, env, client, store, fs, attempted)
           [] name = "export_results" ->
                  ExportResultsBranch(arguments, env, client, store, fs, attempted)
           [] OTHER -> UnknownToolBranch(name, client, store, fs, attempted)

\* handle_call_tool(name, arguments) run in the current state; env holds what
\* the outside world answers: the credential/client construction (env.cred,
\* "" for success, else the exception), query_workspace (env.response) and
\* open() (env.open)
handle_call_tool(name, arguments, env) ==
    IF NeedsClient(logs_client)
    THEN IF env.cred # ""
         THEN Outcome(logs_client, saved_queries, files, "",
                      <<"Failed to initialize Azure client: ", env.cred>>, TRUE, <<>>)
         ELSE Dispatch(name, arguments, env, constructions + 1, saved_queries, files, TRUE)
    ELSE Dispatch(name, arguments, env, logs_client, saved_queries, files, FALSE)

(* --------------------------- inputs and state -------------------------- *)
\* an argument mapping that may or may not hold key
Opt(key, vals) == {<<>>} \cup {key :> v : v \in vals}

Names == {"q1", "q2"}
Queries == {"A", "B"}

\* the argument mappings tried for each tool: every subset of its required
\* keys, and the full required set with the optional keys
ArgumentsOf(name) ==
    CASE name = "query_logs" ->
             {a @@ b : a \in Opt("workspace_id", {"ws"}), b \in Opt("query", {"A"})}
             \cup {[workspace_id |-> "ws", query |-> "A"] @@ c @@ d :
                     c \in Opt("format", {"csv", "table"}), d \in Opt("limit", {1})}
      [] name = "save_query" ->
             {a @@ b : a \in Opt("name", Names), b \in Opt("query", Queries)}
             \cup {[name |-> n, query |-> q, description |-> "d"] : n \in Names, q \in Queries}
      [] name = "run_saved_query" ->
             {a @@ b : a \in Opt("workspace_id", {"ws"}), b \in Opt("name", Names)}
             \cup {[workspace_id |-> "ws", name |-> "q1", timespan |-> "P7D"]}
      [] name = "validate_query" ->
             Opt("query", {<<>>, <<" ", "T", " ", "|">>, <<"1", "a">>})
      [] name = "list_tables" -> Opt("workspace_id", {"ws"})
      [] name = "get_table_schema" ->
             {a @@ b : a \in Opt("workspace_id", {"ws"}), b \in Opt("table_name", {"T"})}
      [] name = "export_results" ->
             {a @@ b @@ c : a \in Opt("workspace_id", {"ws"}), b \in Opt("query", {"A"}),
                            c \in Opt("filename", {"out"})}
             \cup {[workspace_id |-> "ws", query |-> "A", filename |-> "out",
                    format |-> "json"]}
      [] OTHER -> Opt("workspace_id", {"ws"})

UnknownTools == {"delete_query", "Query_Logs"}

K1 == <<"k">>
K2 == <<"i", "d">>

\* the tables a response can carry
TableOf(columns, rows) == [columns |-> columns, rows |-> rows]
T0 == TableOf(<<K1>>, <<>>)
T1 == TableOf(<<K1>>, << <<<<"x">>>> >>)
T2 == TableOf(<<K1>>, << <<<<"x">>>>, <<<<"y", "y">>>> >>)
U1 == TableOf(<<K2>>, << <<<<"z">>>> >>)

\* what query_workspace can answer: an exception, or a result with tables
Responses ==
    {[raised |-> "HttpResponseError", tables |-> <<>>]}
    \cup {[raised |-> "", tables |-> t] :
            t \in {<<>>, <<T0>>, <<T0, T0>>, <<T1>>, <<T2>>, <<T1, U1>>}}

BackendTools ==
    {"query_logs", "run_saved_query", "list_tables", "get_table_schema", "export_results"}

\* what the outside world can answer during one invocation of tool name: the
\* credential/client construction (asked only while there is no client),
\* query_workspace (asked only by the backend tools) and open() (asked only
\* by export_results)
Envs(name) ==
    [cred : IF NeedsClient(logs_client) THEN {"", "CredentialUnavailableError"} ELSE {""},
     response : IF name \in BackendTools THEN Responses
                ELSE {[raised |-> "", tables |-> <<>>]},
     open : IF name = "export_results" THEN {"", "PermissionError"} ELSE {""}]

NoCall ==
    [tool |-> "", arguments |-> <<>>, raised |-> "", text |-> <<>>, attempted |-> FALSE,
     calls |-> <<>>, clientBefore |-> None, storeBefore |-> <<>>,
     failedBefore |-> FALSE]

FmtIdle ==
    [results |-> <<>>, format_type |-> "json", limit |-> 0, done |-> FALSE,
     out |-> Returned(<<>>)]

KqlIdle == [query |-> <<>>, done |-> FALSE, out |-> <<FALSE, "">>]

\* the module globals as server.py sets them at import
DispatchInit ==
    /\ logs_client = None
    /\ saved_queries = <<>>
    /\ files = <<>>
    /\ constructions = 0
    /\ nCalls = 0
    /\ last = NoCall
    /\ everSaved = [n \in Names |-> <<>>]
    /\ initFailed = FALSE
    /\ handlesUsed = {}

Init == DispatchInit /\ fmt = FmtIdle /\ kql = KqlIdle

SavedText(name_key) == <<"Query '", name_key, "' saved successfully">>

\* one invocation of handle_call_tool, run to completion
Invoke(name, arguments, env) ==
    \E o \in {handle_call_tool(name, arguments, env)} :
        /\ logs_client' = o.client
        /\ saved_queries' = o.store
        /\ files' = o.files
        /\ constructions' = IF o.attempted /\ env.cred = "" THEN constructions + 1
                            ELSE constructions
        /\ nCalls' = nCalls + 1
        /\ last' = [tool |-> name, arguments |-> arguments, raised |-> o.raised,
                    text |-> o.text, attempted |-> o.attempted, calls |-> o.calls,
                    clientBefore |-> logs_client, storeBefore |-> saved_queries,
                    failedBefore |-> initFailed]
        /\ everSaved' = IF name = "save_query" /\ o.raised = ""
                           /\ "name" \in DOMAIN arguments
                           /\ o.text = SavedText(arguments["name"])
                        THEN [everSaved EXCEPT ![arguments["name"]] =
                                 <<arguments["query"], ArgGet(arguments, "description", "")>>]
                        ELSE everSaved
        /\ initFailed' = (initFailed \/ (o.attempted /\ env.cred # ""))
        /\ handlesUsed' = handlesUsed \cup {o.calls[i].client : i \in 1..Len(o.calls)}
        /\ UNCHANGED <<fmt, kql>>

CallTool(name) ==
    \E arguments \in ArgumentsOf(name), env \in Envs(name) : Invoke(name, arguments, env)

QueryLogs ==
    /\ nCalls < MaxCalls
    /\ CallTool("query_logs")

SaveQuery ==
    /\ nCalls < MaxCalls
    /\ CallTool("save_query")

ListSavedQueries ==
    /\ nCalls < MaxCalls
    /\ CallTool("list_saved_queries")

RunSavedQuery ==
    /\ nCalls < MaxCalls
    /\ CallTool("run_saved_query")

ValidateQuery ==
    /\ nCalls < MaxCalls
    /\ CallTool("validate_query")

ListTables ==
    /\ nCalls < MaxCalls
    /\ CallTool("list_tables")

GetTableSchema ==
    /\ nCalls < MaxCalls
    /\ CallTool("get_table_schema")

ExportResults ==
    /\ nCalls < MaxCalls
    /\ CallTool("export_results")

UnknownTool ==
    /\ nCalls < MaxCalls
    /\ \E name \in UnknownTools : CallTool(name)

Next ==
    \/ QueryLogs
    \/ SaveQuery
    \/ ListSavedQueries
    \/ RunSavedQuery
    \/ ValidateQuery
    \/ ListTables
    \/ GetTableSchema
    \/ ExportResults
    \/ UnknownTool

Spec == Init /\ [][Next]_vars

(* ------------------- format_results applied on its own ----------------- *)
\* cell values: empty, wider than either header, holding a line break
CellsK1 == {<<>>, <<"x", "x", "x">>, <<"\n">>}
CellsK2 == {<<>>, <<"y", "y", "y">>}

\* row mappings: no column, k, k and id, id alone
RowInputs ==
    {<<>>}
    \cup {<< <<K1, v>> >> : v \in CellsK1}
    \cup {<< <<K1, v>>, <<K2, w>> >> : v \in CellsK1, w \in CellsK2}
    \cup {<< <<K2, w>> >> : w \in CellsK2}

ResultInputs == UNION {[1..n -> RowInputs] : n \in 0..MaxRows}

FormatInputs == {"json", "csv", "table"}

LimitInputs == (-1)..MaxLimit

InitFormat ==
    /\ DispatchInit
    /\ kql = KqlIdle
    /\ fmt \in [results : ResultInputs, format_type : FormatInputs, limit : LimitInputs,
                done : {FALSE}, out : {Returned(<<>>)}]

\* fmt.out = format_results(fmt.results, fmt.format_type, fmt.limit)
FormatResults ==
    /\ ~fmt.done
    /\ fmt' = [fmt EXCEPT !.done = TRUE,
                          !.out = format_results(fmt.results, fmt.format_type, fmt.limit)]
    /\ UNCHANGED dispatchVars
    /\ UNCHANGED kql

NextFormat == FormatResults

SpecFormat == InitFormat /\ [][NextFormat]_vars

(* --------- format_results on its own and under query_logs ------------- *)
InitQuery ==
    /\ DispatchInit
    /\ kql = KqlIdle
    /\ fmt \in [results : {r \in ResultInputs : Len(r) <= 1 /\ \A i \in 1..Len(r) : Len(r[i]) <= 1},
                format_type : FormatInputs, limit : LimitInputs \cup {DefaultLimit},
                done : {FALSE}, out : {Returned(<<>>)}]

NextQuery ==
    \/ QueryLogs
    \/ FormatResults

SpecQuery == InitQuery /\ [][NextQuery]_vars

(* ----------------- validate_kql_syntax applied on its own -------------- *)
\* a space, a line break, a letter, the underscore, a digit, a pipe
QueryChars == {" ", "\n", "T", "_", "1", "|"}

QueryInputs == UNION {[1..n -> QueryChars] : n \in 0..MaxQueryLen}

InitKql ==
    /\ DispatchInit
    /\ fmt = FmtIdle
    /\ kql \in [query : QueryInputs, done : {FALSE}, out : {<<FALSE, "">>}]

\* kql.out = validate_kql_syntax(kql.query)
ValidateKql ==
    /\ ~kql.done
    /\ kql' = [kql EXCEPT !.done = TRUE, !.out = validate_kql_syntax(kql.query)]
    /\ UNCHANGED <<dispatchVars, fmt>>

NextKql == ValidateKql

SpecKql == InitKql /\ [][NextKql]_vars

(* ------------------------------ properties ----------------------------- *)
HasFragment(text, fragment) == \E i \in 1..Len(text) : text[i] = fragment

InitFailureText(text) ==
    Len(text) = 2 /\ text[1] = "Failed to initialize Azure client: "

\* the most recent invocation tried to construct the client and failed
LastInitFailed == last.attempted /\ logs_client = None

\* C1: the saved-query store holds exactly one entry per name that
\* save_query has saved, and that entry holds the query and description of the
\* most recent save of that name (last write wins).
C1_LastWriteWins ==
    /\ \A i, j \in 1..Len(saved_queries) :
          saved_queries[i][1] = saved_queries[j][1] => i = j
    /\ \A i \in 1..Len(saved_queries) : saved_queries[i][1] \in Names
    /\ \A n \in Names :
          /\ DictHas(saved_queries, n) <=> everSaved[n] # <<>>
          /\ DictHas(saved_queries, n) => DictGet(saved_queries, n) = everSaved[n]

\* "q1" saved a second time with another query text: one entry, the second query
C1_Witness ==
    /\ last.tool = "save_query"
    /\ last.text = SavedText("q1")
    /\ DictHas(last.storeBefore, "q1")
    /\ DictGet(last.storeBefore, "q1")[1] # last.arguments["query"]
    /\ Len(saved_queries) = 1
    /\ DictGet(saved_queries, "q1")[1] = last.arguments["query"]

\* the most recent invocation was run_saved_query for a name no save_query has saved
RunOfUnsavedName ==
    /\ last.tool = "run_saved_query"
    /\ "name" \in DOMAIN last.arguments
    /\ everSaved[last.arguments["name"]] = <<>>

\* C2 as stated: run_saved_query for a never-saved name returns text
\* containing "not found" and makes no query_workspace call (stated here for
\* the invocations that carry both required arguments).
C2_Original ==
    (RunOfUnsavedName /\ "workspace_id" \in DOMAIN last.arguments) =>
        /\ last.raised = ""
        /\ HasFragment(last.text, "' not found")
        /\ Len(last.calls) = 0

\* C2 amended: run_saved_query for a never-saved name makes no
\* query_workspace call; it returns the "not found" text when the client is
\* there (already set, or constructed now) and workspace_id is given, the
\* "Failed to initialize Azure client" text when construction fails, and
\* raises the lookup failure when workspace_id is missing.
C2_NotFoundWithoutBackendCall ==
    RunOfUnsavedName =>
        /\ Len(last.calls) = 0
        /\ saved_queries = last.storeBefore
        /\ IF LastInitFailed
           THEN last.raised = "" /\ InitFailureText(last.text)
           ELSE IF "workspace_id" \notin DOMAIN last.arguments
           THEN last.raised = "KeyError"
           ELSE /\ last.raised = ""
                /\ last.text = <<"Query '", last.arguments["name"], "' not found">>

\* another name is in the store, the asked one is not: "not found", no backend call
C2_Witness ==
    /\ RunOfUnsavedName
    /\ Len(saved_queries) > 0
    /\ logs_client # None
    /\ HasFragment(last.text, "' not found")
    /\ Len(last.calls) = 0

UnknownToolCalled == last.tool # "" /\ last.tool \notin RecognizedTools

\* C3 as stated: a tool name outside the eight recognized names gets a
\* text response containing "Unknown tool", whatever the store and the client
\* handle are, and nothing is raised.
C3_Original ==
    UnknownToolCalled => last.raised = "" /\ HasFragment(last.text, "Unknown tool: ")

\* C3 amended: a tool name outside the eight recognized names never
\* raises; it gets the "Unknown tool" text when the client is there (already
\* set, or constructed now) and the "Failed to initialize Azure client" text
\* when the client construction of that invocation fails.
C3_UnknownToolText ==
    UnknownToolCalled =>
        /\ last.raised = ""
        /\ Len(last.calls) = 0
        /\ IF LastInitFailed THEN InitFailureText(last.text)
           ELSE last.text = <<"Unknown tool: ", last.tool>>

C3_Witness ==
    /\ UnknownToolCalled
    /\ Len(saved_queries) > 0
    /\ last.text = <<"Unknown tool: ", last.tool>>

\* C4 as stated: a failed client construction is returned as error text
\* and no later invocation attempts the construction again.
C4_Original ==
    /\ LastInitFailed => last.raised = "" /\ InitFailureText(last.text)
    /\ last.failedBefore => ~last.attempted

\* C4 amended: a failed client construction is returned as error text
\* and leaves the handle unset, so every later invocation attempts the
\* construction again until one succeeds.
C4_FailureReturnedAndRetried ==
    /\ LastInitFailed =>
          /\ last.raised = ""
          /\ InitFailureText(last.text)
          /\ Len(last.calls) = 0
          /\ initFailed
    /\ (last.failedBefore /\ last.clientBefore = None) => last.attempted
    /\ last.clientBefore # None => ~last.attempted

\* a construction failed earlier, this invocation tried again and got a client
C4_Witness ==
    /\ last.failedBefore
    /\ last.attempted
    /\ logs_client # None

\* C5: the client handle is unset before the first invocation, is
\* constructed successfully at most once, and once set is never replaced or
\* cleared: every backend call is made on that one handle.
C5_ClientConstructedOnce ==
    /\ nCalls = 0 => logs_client = None
    /\ constructions <= 1
    /\ logs_client # None <=> constructions = 1
    /\ last.clientBefore # None => logs_client = last.clientBefore /\ ~last.attempted
    /\ \A i \in 1..Len(last.calls) : last.calls[i].client = logs_client
    /\ handlesUsed \subseteq {logs_client} \ {None}

\* a second backend call, made on the handle an earlier invocation constructed
C5_Witness ==
    /\ nCalls >= 2
    /\ last.clientBefore # None
    /\ Len(last.calls) = 1
    /\ handlesUsed = {last.clientBefore}

\* C6 as stated: a recognized tool called without one of its required
\* keys has the lookup failure caught inside handle_call_tool and returned as
\* error text; nothing is raised to the caller.
C6_MissingKeyReturnedAsText ==
    (last.tool \in RecognizedTools /\ ~(RequiredKeys(last.tool) \subseteq DOMAIN last.arguments))
        => last.raised = ""

(* ---- the layout of a table, stated on the returned string alone ---- *)
RECURSIVE SplitLines(_)
\* the lines of a string: the pieces between its line breaks
SplitLines(text) ==
    IF \A i \in 1..Len(text) : text[i] # "\n" THEN <<text>>
    ELSE LET i == CHOOSE k \in 1..Len(text) :
                     text[k] = "\n" /\ \A j \in 1..(k - 1) : text[j] # "\n"
         IN  <<SubSeq(text, 1, i - 1)>> \o SplitLines(SubSeq(text, i + 1, Len(text)))

\* the cell of row under column h ("" when the row lacks the column)
CellOf(row, h) ==
    IF \E j \in 1..Len(row) : row[j][1] = h
    THEN row[CHOOSE j \in 1..Len(row) : row[j][1] = h][2]
    ELSE <<>>

\* the column names: the keys of the first row, in order
HeaderOf(results, i) == results[1][i][1]

\* max(header length, all rendered cell lengths) over the first limit rows
WidthOf(results, limit, i) ==
    LET lens == {Len(HeaderOf(results, i))}
                \cup {Len(CellOf(results[r], HeaderOf(results, i))) : r \in 1..limit}
    IN  CHOOSE m \in lens : \A x \in lens : x <= m

RECURSIVE OffsetOf(_, _, _)
\* where column i starts in a line: the widths before it, 3 characters between columns
OffsetOf(results, limit, i) ==
    IF i = 1 THEN 0
    ELSE OffsetOf(results, limit, i - 1) + WidthOf(results, limit, i - 1) + 3

\* line holds value in column i, left-aligned and padded with spaces to the column width
ColumnHolds(line, results, limit, i, value) ==
    LET off == OffsetOf(results, limit, i)
        w == WidthOf(results, limit, i)
    IN  /\ Len(value) <= w
        /\ Len(line) >= off + w
        /\ SubSeq(line, off + 1, off + Len(value)) = value
        /\ \A k \in (off + Len(value) + 1)..(off + w) : line[k] = " "

\* out is a header line, a dash separator line and exactly limit data lines,
\* the data lines rendering the first limit rows in order
TableOfFirstRows(out, results, limit) ==
    /\ limit >= 0
    /\ out.raised = ""
    /\ LET lines == SplitLines(out.text)
           n == Len(results[1])
           total == IF n = 0 THEN 0
                    ELSE OffsetOf(results, limit, n) + WidthOf(results, limit, n)
       IN  /\ Len(lines) = limit + 2
           /\ \A l \in 1..Len(lines) : Len(lines[l]) = total
           /\ \A i \in 1..n : ColumnHolds(lines[1], results, limit, i, HeaderOf(results, i))
           /\ \A k \in 1..total : lines[2][k] \in {"-", "+"}
           /\ \A r \in 1..limit : \A i \in 1..n :
                 ColumnHolds(lines[r + 2], results, limit, i,
                             CellOf(results[r], HeaderOf(results, i)))

TruncatingTableCall ==
    /\ fmt.done
    /\ fmt.format_type = "table"
    /\ Len(fmt.results) > fmt.limit

\* no column name and no cell of the first limit rows holds a line break
NoLineBreaks(results, limit) ==
    \A i \in 1..Len(results[1]) :
        /\ \A k \in 1..Len(HeaderOf(results, i)) : HeaderOf(results, i)[k] # "\n"
        /\ \A r \in 1..limit :
              LET c == CellOf(results[r], HeaderOf(results, i))
              IN  \A k \in 1..Len(c) : c[k] # "\n"

\* C7 as stated: for every integer limit below the number of rows, table
\* mode renders exactly limit data rows (the first limit rows, in order) below
\* one header line and one dash separator line, no cell wider than its column
\* (stated here for the limits that can be a number of rows, 0 and above).
C7_Original ==
    (TruncatingTableCall /\ fmt.limit >= 0)
        => TableOfFirstRows(fmt.out, fmt.results, fmt.limit)

\* C7 amended: the same for every limit of at least 1 and rows whose
\* column names and rendered cells hold no line break.
C7_TableTruncatedToLimit ==
    (TruncatingTableCall /\ fmt.limit >= 1 /\ NoLineBreaks(fmt.results, fmt.limit))
        => TableOfFirstRows(fmt.out, fmt.results, fmt.limit)

\* three rows of two columns cut to two data rows
C7_Witness ==
    /\ TruncatingTableCall
    /\ fmt.limit = 2
    /\ Len(fmt.results) = 3
    /\ Len(fmt.results[1]) = 2
    /\ NoLineBreaks(fmt.results, fmt.limit)
    /\ Len(SplitLines(fmt.out.text)) = 4

\* the three outcomes, decided by the first character that is not whitespace
ExpectedVerdict(query) ==
    LET solid == {i \in 1..Len(query) : query[i] \notin Whitespace}
        first == CHOOSE i \in solid : \A j \in solid : i <= j
    IN  IF solid = {} THEN <<FALSE, "Empty query">>
        ELSE IF query[first] \in AsciiLetters \cup {"_"} THEN <<TRUE, "Valid syntax">>
        ELSE <<FALSE, "Query must start with a table name">>

\* C8: validate_kql_syntax answers (false, "Empty query") for an empty or
\* whitespace-only string, (false, "Query must start with a table name") when
\* the trimmed string does not begin with a letter or underscore, and
\* (true, "Valid syntax") otherwise.
C8_ValidateVerdict == kql.done => kql.out = ExpectedVerdict(kql.query)

\* " T|" : leading whitespace, then a table name
C8_Witness ==
    /\ kql.done
    /\ kql.query = <<" ", "T", "|">>
    /\ kql.out = <<TRUE, "Valid syntax">>

FailureLabel(name) ==
    CASE name = "query_logs" -> "Query failed: "
      [] name = "run_saved_query" -> "Query failed: "
      [] name = "list_tables" -> "Failed to list tables: "
      [] name = "get_table_schema" -> "Failed to get schema: "
      [] name = "export_results" -> "Export failed: "

\* C9 as stated: a backend-calling tool answers a failed query_workspace
\* call with text prefixed by its label and raises nothing; every invocation
\* makes at most one query_workspace call and always ends with a text response.
C9_BackendFailureIsTerminalText ==
    last.tool \in BackendTools =>
        /\ Len(last.calls) <= 1
        /\ last.raised = ""
        /\ (Len(last.calls) = 1 /\ last.calls[1].response.raised # "")
              => last.text = <<FailureLabel(last.tool), last.calls[1].response.raised>>

AllTablesEmpty(tables) == \A t \in 1..Len(tables) : Len(tables[t].rows) = 0

\* C10: format_results returns "No results found" for an empty row
\* sequence in every mode and for every limit, and query_logs returns the
\* same text when the response has no tables and when all its tables have zero rows.
C10_NoResultsSentinel ==
    /\ (fmt.done /\ Len(fmt.results) = 0) => fmt.out = Returned(NoResults)
    /\ (/\ last.tool = "query_logs"
        /\ Len(last.calls) = 1
        /\ last.calls[1].response.raised = ""
        /\ AllTablesEmpty(last.calls[1].response.tables))
          => last.raised = "" /\ last.text = NoResults

\* table mode applied to no rows, and query_logs answered with two empty tables
C10_Witness ==
    /\ fmt.done
    /\ Len(fmt.results) = 0
    /\ fmt.format_type = "table"
    /\ fmt.out.text = NoResults
    /\ last.tool = "query_logs"
    /\ Len(last.calls) = 1
    /\ Len(last.calls[1].response.tables) = 2
    /\ AllTablesEmpty(last.calls[1].response.tables)
    /\ last.text = NoResults

\* the names in a store
NamesIn(store) == {store[i][1] : i \in 1..Len(store)}

\* C11: across any sequence of invocations the set of names in the
\* saved-query store never shrinks, and only a save_query invocation that
\* answers "saved successfully" changes the store: every other tool, every
\* unknown tool and every invocation that ends in an error leaves it unchanged.
C11_StoreOnlyChangedBySave ==
    [][/\ NamesIn(saved_queries) \subseteq NamesIn(saved_queries')
       /\ saved_queries' # saved_queries =>
             /\ last'.tool = "save_query"
             /\ last'.raised = ""
             /\ "name" \in DOMAIN last'.arguments
             /\ last'.text = SavedText(last'.arguments["name"])
             /\ NamesIn(saved_queries')
                   = NamesIn(saved_queries) \cup {last'.arguments["name"]}
             /\ \A i \in 1..Len(saved_queries) :
                   saved_queries[i][1] # last'.arguments["name"]
                      => saved_queries'[i] = saved_queries[i]]_vars

\* a saved query whose run failed at the backend: the store is as it was
C11_Witness ==
    /\ last.tool = "run_saved_query"
    /\ last.text = <<"Query failed: ", "HttpResponseError">>
    /\ Len(saved_queries) = 2
    /\ saved_queries = last.storeBefore

====
